---- MODULE Spec2Model ----
(***************************************************************************)
(* Model of testcases/kernel/fs/dentry/dentry01.c: a parent process that   *)
(* recreates a base directory, forks workers_len workers which thrash the  *)
(* directory with openat/renameat/unlinkat, stops them with SIGUSR1 and    *)
(* removes the directory again.                                            *)
(*                                                                         *)
(* Every system call of the parent and of each worker is one atomic step;  *)
(* the steps of different processes interleave freely.                     *)
(***************************************************************************)
EXTENDS Integers, Sequences, FiniteSets, TLC

\* ---------------------------------------------------------------- bounds
\* Largest worker count (-w) tried.
MaxWorkers == 2
\* Number of entries of the files[] table that are modelled.
MaxFiles == 2
\* Largest number of workers the environment ends from outside in one run.
MaxCrashes == 1

\* ------------------------------------------------------- program constants
\* Range accepted for -p (setup).
PRIO_MIN == -20
PRIO_MAX == 19
\* Initial values of the globals workers_len, timeout_s and priority.
DefaultWorkers == 15
DefaultTimeout == 120
DefaultPriority == 0
\* INT_MAX of <limits.h>, the upper limit given for -w and -t.
INT_MAX == 2147483647

\* ------------------------------------------------------------ file names
\* files[]: the resting names ".fN"; a name is the sequence of its characters.
NumStr == <<"1", "2", "3", "4", "5", "6", "7", "8", "9", "10">>
files == [n \in 1..MaxFiles |-> <<".", "f", NumStr[n]>>]

\* The length loop at the head of setup.
FilesLen == Len(files)

\* const char *src = &files[n][0];
SrcName(n) == files[n]
\* const char *dst = &files[n][1];
DstName(n) == Tail(files[n])

SlotNames == {SrcName(n) : n \in 1..MaxFiles} \cup {DstName(n) : n \in 1..MaxFiles}
\* An entry of the directory that is not in the table (left by someone else).
Foreign == <<"x">>

\* ------------------------------------------------------------ the state
VARIABLES
    \* --- environment: the file system and the command line
    base,         \* what /tmp/dentry01 is: "none", "file" or "dir"
    entries,      \* names present in the base directory
    opt,          \* the parsed -w, -t, -p values given on the command line
    mem_ok,       \* whether malloc can succeed
    \* --- parent process
    pc,           \* position of the parent
    idx,          \* the loop variable i of spawn_workers / stop_workers
    base_dir,     \* the path buffer: "" until setup fills it in
    workers_len, timeout_s, priority,
    workers,      \* the parent's worker table (<<>> while NULL)
    freed,        \* free(workers) has run
    rm,           \* rm_base_dir: [caller, i, dirfd] while it runs, ret once returned,
                  \* quiet when no worker was running as it was called
    pfds,         \* directory handles the parent holds open
    aborted,      \* the message of the tst_brk that ended the run ("" if none)
    results,      \* TPASS records emitted
    forked, signalled, reaped,   \* worker indexes by what the parent did to them
    made_dir,     \* the mkdir of setup has succeeded in this run
    early,        \* workers that had already ended when SAFE_KILL was called on them
    \* --- worker processes (index k is workers[k-1] of the C code)
    wpc,          \* position of each worker
    ctable,       \* each child's own copy of the worker table
    current,      \* `current` in each process (0 is NULL)
    handler,      \* SIGUSR1 disposition in each process: TRUE = sa_handler_finished
    pending,      \* SIGUSR1 sent and not yet delivered
    wdirfd,       \* the child holds its dirfd
    wfd,          \* the child holds a slot-file descriptor
    wn,           \* slot picked in the current iteration
    wtgt,         \* name the iteration's unlinkat will be given
    winherit,     \* directory handles copied from the parent at fork
    wstatus       \* how the child ended: "none", "exit0", "brk", "sigusr1", "crashed"

envvars == <<base, entries, opt, mem_ok>>
parvars == <<pc, idx, base_dir, workers_len, timeout_s, priority, workers, freed, rm,
             pfds, aborted, results, forked, signalled, reaped,
                   made_dir, early>>
chvars == <<wpc, ctable, current, handler, pending, wdirfd, wfd, wn, wtgt, winherit,
            wstatus>>
vars == <<envvars, parvars, chvars>>

W == 1..MaxWorkers
\* Processes: 0 is the parent (the test process), k >= 1 the k-th child.
Procs == 0..MaxWorkers

\* struct worker, zeroed.
ZeroWorker == [id |-> 0, pid |-> 0, finished |-> 0]

\* pid the kernel gives the k-th forked child.
PidOf(k) == 100 + k

\* Storing v into `int finished:1`: a signed one-bit field keeps the low bit
\* as the sign bit, so 1 is stored as -1.
Bitfield1(v) == IF v % 2 = 0 THEN 0 ELSE -1

NoRm == [caller |-> "none", i |-> 0, dirfd |-> FALSE, ret |-> 0, quiet |-> TRUE]

\* ------------------------------------------------------------- initial state
\* Configurations tried: -w in 0..MaxWorkers, -t in 0..1, -p below the
\* accepted range, at its upper end and above it.  The base path is absent,
\* a regular file, or a
\* stale directory holding any set of slot names and possibly a foreign entry.
OptSet == [w : 0..MaxWorkers, t : 0..1,
           p : {PRIO_MIN - 1, PRIO_MAX, PRIO_MAX + 1}]

Init ==
    /\ base \in {"none", "file", "dir"}
    /\ entries \in IF base = "dir" THEN SUBSET (SlotNames \cup {Foreign}) ELSE {{}}
    /\ opt \in OptSet
    /\ mem_ok \in BOOLEAN
    /\ pc = "setup"
    /\ idx = 0
    /\ base_dir = ""
    /\ workers_len = DefaultWorkers
    /\ timeout_s = DefaultTimeout
    /\ priority = DefaultPriority
    /\ workers = <<>>
    /\ freed = FALSE
    /\ rm = NoRm
    /\ pfds = 0
    /\ aborted = ""
    /\ results = <<>>
    /\ forked = {}
    /\ signalled = {}
    /\ reaped = {}
    /\ made_dir = FALSE
    /\ early = {}
    /\ wpc = [k \in W |-> "none"]
    /\ ctable = [k \in W |-> <<>>]
    /\ current = [k \in Procs |-> 0]
    /\ handler = [k \in Procs |-> FALSE]
    /\ pending = [k \in W |-> FALSE]
    /\ wdirfd = [k \in W |-> FALSE]
    /\ wfd = [k \in W |-> FALSE]
    /\ wn = [k \in W |-> 0]
    /\ wtgt = [k \in W |-> <<>>]
    /\ winherit = [k \in W |-> 0]
    /\ wstatus = [k \in W |-> "none"]

\* ------------------------------------------------------ library collaborators
\* tst_parse_int(str, &val, min, max): 0 and the value stored when it lies in
\* min..max, an error and nothing stored otherwise.
ParseOk(v, min, max) == min <= v /\ v <= max

\* tst_brk(ttype, msg) in the test process: the run is aborted, the test's
\* cleanup callback runs, nothing after the call is executed.
Brk(msg) ==
    /\ aborted' = msg
    /\ pc' = "cleanup"

\* ------------------------------------------------------------------- setup
\* tst_parse_int(str_priority, &priority, -20, 19) accepts v.
PrioOkWide(v) == ParseOk(v, PRIO_MIN - 1, PRIO_MAX + 1)
PrioOk(v) == ParseOk(v, PRIO_MIN, PRIO_MAX)

\* Lines 153-173: the length loop, the three tst_parse_int calls, malloc,
\* sprintf(base_dir), up to the call of rm_base_dir.
Setup ==
    /\ pc = "setup"
    /\ IF ~ParseOk(opt.w, 1, INT_MAX)
       THEN /\ Brk("Invalid workers count")
            /\ UNCHANGED <<workers_len, timeout_s, priority, workers, base_dir, rm>>
       ELSE /\ workers_len' = opt.w
            /\ IF ~ParseOk(opt.t, 1, INT_MAX)
               THEN /\ Brk("Invalid timeout")
                    /\ UNCHANGED <<timeout_s, priority, workers, base_dir, rm>>
               ELSE /\ timeout_s' = opt.t
                    /\ IF ~PrioOk(opt.p)
                       THEN /\ Brk("Invalid priority")
                            /\ UNCHANGED <<priority, workers, base_dir, rm>>
                       ELSE /\ priority' = opt.p
                            /\ IF ~mem_ok
                               THEN /\ Brk("Could not allocate workers array")
                                    /\ UNCHANGED <<workers, base_dir, rm>>
                               ELSE /\ workers' = [k \in 1..opt.w |-> ZeroWorker]
                                    /\ base_dir' = "/tmp/dentry01"
                                    /\ rm' = [caller |-> "setup", i |-> 0, dirfd |-> FALSE,
                                             ret |-> 0, quiet |-> TRUE]
                                    /\ pc' = "rm_open"
                                    /\ UNCHANGED aborted
    /\ UNCHANGED <<envvars, chvars, idx, freed, pfds, results, forked, signalled, reaped,
                   made_dir, early>>

\* ------------------------------------------------------------- rm_base_dir
\* Return from rm_base_dir with value ret, to setup (lines 175-176) or to
\* cleanup (line 183, which drops the value).
RmReturn(ret) ==
    /\ rm' = [NoRm EXCEPT !.ret = ret, !.quiet = rm.quiet]
    /\ IF rm.caller = "setup"
       THEN IF ret # 0
            THEN Brk("Failed to remove existing base directory")
            ELSE pc' = "mkdir" /\ UNCHANGED aborted
       ELSE pc' = "free" /\ UNCHANGED aborted

\* open(base_dir, O_RDONLY | O_DIRECTORY | O_CLOEXEC): a handle when the path
\* names a directory, -1 otherwise (and then rm_base_dir returns 0).
RmOpen ==
    /\ pc = "rm_open"
    /\ IF base_dir # "" /\ base = "dir"
       THEN /\ pfds' = pfds + 1
            /\ rm' = [rm EXCEPT !.dirfd = TRUE, !.i = 1]
            /\ pc' = IF 1 <= FilesLen THEN "rm_unlink_src" ELSE "rm_rmdir"
            /\ UNCHANGED aborted
       ELSE /\ RmReturn(0)
            /\ UNCHANGED pfds
    /\ UNCHANGED <<envvars, chvars, idx, base_dir, workers_len, timeout_s, priority,
                   workers, freed, results, forked, signalled, reaped,
                   made_dir, early>>

\* unlinkat(dirfd, name, 0): the name goes if it is there; the result is ignored.
Unlinkat(name) == entries' = entries \ {name}

\* unlinkat(dirfd, src, 0) of the loop.
RmUnlinkSrc ==
    /\ pc = "rm_unlink_src"
    /\ Unlinkat(SrcName(rm.i))
    /\ pc' = "rm_unlink_dst"
    /\ UNCHANGED <<base, opt, mem_ok, chvars, idx, base_dir, workers_len, timeout_s,
                   priority, workers, freed, rm, pfds, aborted, results, forked,
                   signalled, reaped,
                   made_dir, early>>

\* unlinkat(dirfd, dst, 0) of the loop, and ++i.
RmUnlinkDstSkipped ==
    /\ pc = "rm_unlink_dst"
    /\ rm' = [rm EXCEPT !.i = rm.i + 1]
    /\ pc' = IF rm.i + 1 <= FilesLen THEN "rm_unlink_src" ELSE "rm_rmdir"
    /\ UNCHANGED <<envvars, chvars, idx, base_dir, workers_len, timeout_s,
                   priority, workers, freed, pfds, aborted, results, forked,
                   signalled, reaped,
                   made_dir, early>>
RmUnlinkDst ==
    /\ pc = "rm_unlink_dst"
    /\ Unlinkat(DstName(rm.i))
    /\ rm' = [rm EXCEPT !.i = rm.i + 1]
    /\ pc' = IF rm.i + 1 <= FilesLen THEN "rm_unlink_src" ELSE "rm_rmdir"
    /\ UNCHANGED <<base, opt, mem_ok, chvars, idx, base_dir, workers_len, timeout_s,
                   priority, workers, freed, pfds, aborted, results, forked,
                   signalled, reaped,
                   made_dir, early>>

\* return rmdir(base_dir): 0 and the directory gone when it is empty,
\* -1 (ENOTEMPTY) otherwise.  The handle dirfd is not closed.
RmRmdir ==
    /\ pc = "rm_rmdir"
    /\ IF base = "dir" /\ entries = {}
       THEN base' = "none" /\ RmReturn(0)
       ELSE UNCHANGED base /\ RmReturn(-1)
    /\ UNCHANGED <<entries, opt, mem_ok, chvars, idx, base_dir, workers_len, timeout_s,
                   priority, workers, freed, pfds, results, forked, signalled, reaped,
                   made_dir, early>>

\* mkdir(base_dir, 0755) of setup: fails when the path exists.
Mkdir ==
    /\ pc = "mkdir"
    /\ IF base = "none"
       THEN /\ base' = "dir"
            /\ entries' = {}
            /\ made_dir' = TRUE
            /\ pc' = "do_test"
            /\ UNCHANGED aborted
       ELSE /\ Brk("Failed to create base directory")
            /\ UNCHANGED <<base, entries, made_dir>>
    /\ UNCHANGED <<opt, mem_ok, chvars, idx, base_dir, workers_len, timeout_s, priority,
                   workers, freed, rm, pfds, results, forked, signalled, reaped, early>>

\* ----------------------------------------------------------------- cleanup
\* cleanup: the call of rm_base_dir.
CleanupNoRm ==
    /\ pc = "cleanup"
    /\ pc' = "free"
    /\ UNCHANGED <<envvars, chvars, idx, base_dir, workers_len, timeout_s, priority,
                   workers, freed, rm, pfds, aborted, results, forked, signalled, reaped,
                   made_dir, early>>
Cleanup ==
    /\ pc = "cleanup"
    /\ rm' = [caller |-> "cleanup", i |-> 0, dirfd |-> FALSE, ret |-> 0,
              quiet |-> \A k \in W : wpc[k] \in {"none", "dead", "reaped"}]
    /\ pc' = "rm_open"
    /\ UNCHANGED <<envvars, chvars, idx, base_dir, workers_len, timeout_s, priority,
                   workers, freed, pfds, aborted, results, forked, signalled, reaped,
                   made_dir, early>>

\* cleanup: free(workers); the process then ends.
Free ==
    /\ pc = "free"
    /\ freed' = TRUE
    /\ pc' = "done"
    /\ UNCHANGED <<envvars, chvars, idx, base_dir, workers_len, timeout_s, priority,
                   workers, rm, pfds, aborted, results, forked, signalled, reaped,
                   made_dir, early>>

\* ----------------------------------------------------------------- do_test
\* do_test up to the first fork: setpriority, and the memset of spawn_workers.
DoTestInstallsHandler ==
    /\ pc = "do_test"
    /\ workers' = [k \in 1..workers_len |-> ZeroWorker]
    /\ handler' = [handler EXCEPT ![0] = TRUE]
    /\ idx' = 1
    /\ pc' = IF 1 <= workers_len THEN "fork" ELSE "sleep"
    /\ UNCHANGED <<envvars, base_dir, workers_len, timeout_s, priority, freed,
                   rm, pfds, aborted, results, forked, signalled, reaped,
                   made_dir, early, wpc, ctable, current, pending, wdirfd, wfd, wn,
                   wtgt, winherit, wstatus>>
DoTest ==
    /\ pc = "do_test"
    /\ workers' = [k \in 1..workers_len |-> ZeroWorker]
    /\ idx' = 1
    /\ pc' = IF 1 <= workers_len THEN "fork" ELSE "sleep"
    /\ UNCHANGED <<envvars, chvars, base_dir, workers_len, timeout_s, priority, freed,
                   rm, pfds, aborted, results, forked, signalled, reaped,
                   made_dir, early>>

\* The child side of a successful fork (lines 110-114): the child has a copy
\* of the table as it was at the fork, in which fork returned 0, and the
\* parent's signal dispositions and open descriptors; it points current at
\* its own entry and stores getpid() there.
ChildAfterForkFirstEntry(k, table) ==
    /\ ctable' = [ctable EXCEPT ![k] =
                    [table EXCEPT ![1] = [id |-> 0, pid |-> PidOf(k), finished |-> 0]]]
    /\ current' = [current EXCEPT ![k] = 1]
    /\ handler' = [handler EXCEPT ![k] = handler[0]]
    /\ winherit' = [winherit EXCEPT ![k] = pfds]
    /\ wpc' = [wpc EXCEPT ![k] = "open"]
ChildAfterFork(k, table) ==
    /\ ctable' = [ctable EXCEPT ![k] =
                    [table EXCEPT ![k] = [id |-> k - 1, pid |-> PidOf(k), finished |-> 0]]]
    /\ current' = [current EXCEPT ![k] = k]
    /\ handler' = [handler EXCEPT ![k] = handler[0]]
    /\ winherit' = [winherit EXCEPT ![k] = pfds]
    /\ wpc' = [wpc EXCEPT ![k] = "open"]

\* One round of the loop of spawn_workers in which SAFE_FORK succeeds.
SpawnFork ==
    /\ pc = "fork"
    /\ workers' = [workers EXCEPT ![idx] = [id |-> idx - 1, pid |-> PidOf(idx),
                                            finished |-> 0]]
    /\ ChildAfterFork(idx, workers)
    /\ forked' = forked \cup {idx}
    /\ idx' = idx + 1
    /\ pc' = IF idx + 1 <= workers_len THEN "fork" ELSE "sleep"
    /\ UNCHANGED <<envvars, base_dir, workers_len, timeout_s, priority, freed, rm, pfds,
                   aborted, results, signalled, reaped, made_dir, early, pending,
                   wdirfd, wfd, wn, wtgt, wstatus>>

\* One round of the loop of spawn_workers in which fork fails: SAFE_FORK
\* calls tst_brk and does not return.
SpawnForkFail ==
    /\ pc = "fork"
    /\ workers' = [workers EXCEPT ![idx].id = idx - 1]
    /\ Brk("fork failed")
    /\ UNCHANGED <<envvars, chvars, idx, base_dir, workers_len, timeout_s, priority,
                   freed, rm, pfds, results, forked, signalled, reaped,
                   made_dir, early>>

\* sleep(timeout_s): the workers take any number of steps meanwhile.
Sleep ==
    /\ pc = "sleep"
    /\ idx' = 1
    /\ pc' = IF 1 <= workers_len THEN "kill" ELSE "pass"
    /\ UNCHANGED <<envvars, chvars, base_dir, workers_len, timeout_s, priority, workers,
                   freed, rm, pfds, aborted, results, forked, signalled, reaped,
                   made_dir, early>>

\* The worker whose process id is p (0 when there is none).
ProcOfRunningOnly(p) ==
    IF \E k \in forked \ reaped : PidOf(k) = p /\ wpc[k] \notin {"none", "dead"}
    THEN CHOOSE k \in forked \ reaped : PidOf(k) = p
    ELSE 0
ProcOf(p) == IF \E k \in forked \ reaped : PidOf(k) = p
             THEN CHOOSE k \in forked \ reaped : PidOf(k) = p
             ELSE 0

Alive(k) == wpc[k] \notin {"none", "dead", "reaped"}

\* What follows the first loop of stop_workers.
AfterKillSerial(i) == "wait"
AfterKill(i) == IF i + 1 <= workers_len THEN "kill" ELSE "wait"

\* What follows a waitpid of the second loop.
AfterWaitFirstOnly(i) == "pass"
AfterWait(i) == IF i + 1 <= workers_len THEN "wait" ELSE "pass"

\* One round of the first loop of stop_workers: SAFE_KILL(workers[i].pid,
\* SIGUSR1).  The signal is queued for a process that still runs; a process
\* that has ended and is not yet reaped takes it without effect.
StopKill ==
    /\ pc = "kill"
    /\ LET k == ProcOf(workers[idx].pid) IN
         IF k = 0
         THEN /\ Brk("kill failed")
              /\ UNCHANGED <<idx, signalled, pending, early>>
         ELSE /\ signalled' = signalled \cup {k}
              /\ early' = IF Alive(k) THEN early ELSE early \cup {k}
              /\ pending' = [pending EXCEPT ![k] = Alive(k)]
              /\ pc' = AfterKill(idx)
              /\ idx' = IF AfterKill(idx) = "kill" THEN idx + 1 ELSE 1
              /\ UNCHANGED aborted
    /\ UNCHANGED <<envvars, base_dir, workers_len, timeout_s, priority, workers, freed,
                   rm, pfds, results, forked, reaped, made_dir, wpc, ctable, current,
                   handler, wdirfd, wfd, wn, wtgt, winherit, wstatus>>

\* One round of the second loop of stop_workers: waitpid(workers[i].pid,
\* &wstatus, 0) returns once that child has ended.
StopWait ==
    /\ pc = "wait"
    /\ LET k == ProcOf(workers[idx].pid) IN
         /\ k # 0
         /\ wpc[k] = "dead"
         /\ reaped' = reaped \cup {k}
         /\ wpc' = [wpc EXCEPT ![k] = "reaped"]
    /\ pc' = AfterWait(idx)
    /\ idx' = IF AfterWait(idx) = "wait" THEN idx + 1 ELSE idx
    /\ UNCHANGED <<envvars, base_dir, workers_len, timeout_s, priority, workers, freed,
                   rm, pfds, aborted, results, forked, signalled, made_dir, early, ctable,
                   current, handler, pending, wdirfd, wfd, wn, wtgt, winherit, wstatus>>

\* tst_res(TPASS, ...) at the end of do_test; the test's cleanup follows.
Pass ==
    /\ pc = "pass"
    /\ results' = Append(results, "TPASS")
    /\ pc' = "cleanup"
    /\ UNCHANGED <<envvars, chvars, idx, base_dir, workers_len, timeout_s, priority,
                   workers, freed, rm, pfds, aborted, forked, signalled, reaped,
                   made_dir, early>>

\* ------------------------------------------------------------------ workers
\* A process that ends gives up every descriptor it holds.
Ends(k, how) ==
    /\ wpc' = [wpc EXCEPT ![k] = "dead"]
    /\ wstatus' = [wstatus EXCEPT ![k] = how]
    /\ wdirfd' = [wdirfd EXCEPT ![k] = FALSE]
    /\ wfd' = [wfd EXCEPT ![k] = FALSE]
    /\ winherit' = [winherit EXCEPT ![k] = 0]
    /\ pending' = [pending EXCEPT ![k] = FALSE]

\* worker_run line 76: SAFE_OPEN(base_dir, O_RDONLY | O_DIRECTORY | O_CLOEXEC |
\* O_PATH); when the open fails SAFE_OPEN calls tst_brk and the child exits
\* with a non-zero status.
WorkerOpen(k) ==
    /\ wpc[k] = "open"
    /\ IF base = "dir"
       THEN /\ wdirfd' = [wdirfd EXCEPT ![k] = TRUE]
            /\ wpc' = [wpc EXCEPT ![k] = "sigaction"]
            /\ UNCHANGED <<wstatus, wfd, winherit, pending>>
       ELSE Ends(k, "brk")
    /\ UNCHANGED <<envvars, parvars, ctable, current, handler, wn, wtgt>>

\* worker_run lines 78-80: sigaction(SIGUSR1, &finished_sa, NULL) and srandom.
WorkerSigaction(k) ==
    /\ wpc[k] = "sigaction"
    /\ handler' = [handler EXCEPT ![k] = TRUE]
    /\ wpc' = [wpc EXCEPT ![k] = "check"]
    /\ UNCHANGED <<envvars, parvars, ctable, current, pending, wdirfd, wfd, wn, wtgt,
                   winherit, wstatus>>

\* current->finished as the child reads it.
Finished(k) == ctable[k][current[k]].finished

\* while (!current->finished)
WorkerCheckCompareOne(k) ==
    /\ wpc[k] = "check"
    /\ wpc' = [wpc EXCEPT ![k] = IF Finished(k) = 1 THEN "closedir" ELSE "openat"]
    /\ UNCHANGED <<envvars, parvars, ctable, current, handler, pending, wdirfd, wfd, wn,
                   wtgt, winherit, wstatus>>
WorkerCheck(k) ==
    /\ wpc[k] = "check"
    /\ wpc' = [wpc EXCEPT ![k] = IF Finished(k) # 0 THEN "closedir" ELSE "openat"]
    /\ UNCHANGED <<envvars, parvars, ctable, current, handler, pending, wdirfd, wfd, wn,
                   wtgt, winherit, wstatus>>

\* The handle dirfd of a worker still names a directory.
DirLive == base = "dir"

\* Where a worker goes when openat has failed: `continue`.
AfterOpenFailNoContinue == "rename"
AfterOpenFail == "check"

\* n = random() % files_len; fd = openat(dirfd, src, O_RDWR | O_CREAT |
\* O_CLOEXEC, 0644): the name exists afterwards; the call fails in a directory
\* that has been removed.
WorkerOpenat(k) ==
    /\ wpc[k] = "openat"
    /\ \E n \in 1..FilesLen :
         IF DirLive
         THEN /\ entries' = entries \cup {SrcName(n)}
              /\ wfd' = [wfd EXCEPT ![k] = TRUE]
              /\ wn' = [wn EXCEPT ![k] = n]
              /\ wpc' = [wpc EXCEPT ![k] = "rename"]
         ELSE /\ wpc' = [wpc EXCEPT ![k] = AfterOpenFail]
              /\ wn' = [wn EXCEPT ![k] = IF AfterOpenFail = "check" THEN 0 ELSE n]
              /\ UNCHANGED <<entries, wfd>>
    /\ UNCHANGED <<base, opt, mem_ok, parvars, ctable, current, handler, pending, wdirfd,
                   wtgt, winherit, wstatus>>

\* The name unlinkat is given after renameat: src when renameat returned
\* non-zero, dst when it returned 0.
UnlinkTargetSwapped(n, renamed) == IF renamed THEN SrcName(n) ELSE DstName(n)
UnlinkTarget(n, renamed) == IF renamed THEN DstName(n) ELSE SrcName(n)

\* renameat(dirfd, src, dirfd, dst): moves the name when src is there (taking
\* the place of dst), fails otherwise.
WorkerRename(k) ==
    /\ wpc[k] = "rename"
    /\ LET src == SrcName(wn[k])
           dst == DstName(wn[k])
           ok == DirLive /\ src \in entries
       IN /\ entries' = IF ok THEN (entries \ {src}) \cup {dst} ELSE entries
          /\ wtgt' = [wtgt EXCEPT ![k] = UnlinkTarget(wn[k], ok)]
    /\ wpc' = [wpc EXCEPT ![k] = "unlink"]
    /\ UNCHANGED <<base, opt, mem_ok, parvars, ctable, current, handler, pending, wdirfd,
                   wfd, wn, winherit, wstatus>>

\* unlinkat(dirfd, src, 0) or unlinkat(dirfd, dst, 0); the result is ignored.
\* n, src and dst are not read again in this iteration.
WorkerUnlink(k) ==
    /\ wpc[k] = "unlink"
    /\ Unlinkat(wtgt[k])
    /\ wn' = [wn EXCEPT ![k] = 0]
    /\ wtgt' = [wtgt EXCEPT ![k] = <<>>]
    /\ wpc' = [wpc EXCEPT ![k] = "close"]
    /\ UNCHANGED <<base, opt, mem_ok, parvars, ctable, current, handler, pending, wdirfd,
                   wfd, winherit, wstatus>>

\* close(fd), the end of the iteration.
WorkerCloseSkipped(k) ==
    /\ wpc[k] = "close"
    /\ wpc' = [wpc EXCEPT ![k] = "check"]
    /\ UNCHANGED <<envvars, parvars, ctable, current, handler, pending, wdirfd, wfd, wn,
                   wtgt, winherit, wstatus>>
WorkerClose(k) ==
    /\ wpc[k] = "close"
    /\ wfd' = [wfd EXCEPT ![k] = FALSE]
    /\ wpc' = [wpc EXCEPT ![k] = "check"]
    /\ UNCHANGED <<envvars, parvars, ctable, current, handler, pending, wdirfd, wn, wtgt,
                   winherit, wstatus>>

\* close(dirfd); return 0;
WorkerClosedir(k) ==
    /\ wpc[k] = "closedir"
    /\ wdirfd' = [wdirfd EXCEPT ![k] = FALSE]
    /\ wpc' = [wpc EXCEPT ![k] = "exit"]
    /\ UNCHANGED <<envvars, parvars, ctable, current, handler, pending, wfd, wn, wtgt,
                   winherit, wstatus>>

\* exit(worker_run()) with the 0 that worker_run returned.
WorkerExit(k) ==
    /\ wpc[k] = "exit"
    /\ Ends(k, "exit0")
    /\ UNCHANGED <<envvars, parvars, ctable, current, handler, wn, wtgt>>

\* sa_handler_finished run in process k: current->finished = 1, a store into
\* that process's own copy of the table.
HandlerNoOp(k) == UNCHANGED <<ctable, workers>>
HandlerSharedTable(k) ==
    /\ ctable' = [ctable EXCEPT ![k][current[k]].finished = Bitfield1(1)]
    /\ workers' = [workers EXCEPT ![current[k]].finished = Bitfield1(1)]
sa_handler_finished(k) ==
    /\ ctable' = [ctable EXCEPT ![k][current[k]].finished = Bitfield1(1)]
    /\ UNCHANGED workers

\* A queued SIGUSR1 is delivered to worker k: the handler runs when it is
\* installed; under the default disposition the signal terminates the process.
Deliver(k) ==
    /\ pending[k]
    /\ Alive(k)
    /\ IF handler[k]
       THEN /\ sa_handler_finished(k)
            /\ pending' = [pending EXCEPT ![k] = FALSE]
            /\ UNCHANGED <<wpc, wstatus, wdirfd, wfd, winherit>>
       ELSE /\ Ends(k, "sigusr1")
            /\ UNCHANGED <<ctable, workers>>
    /\ UNCHANGED <<envvars, pc, idx, base_dir, workers_len, timeout_s, priority, freed,
                   rm, pfds, aborted, results, forked, signalled, reaped, made_dir,
                   early, current, handler, wn, wtgt>>

\* The environment ends worker k from outside (an external crash or kill)
\* before the parent has sent it the stop signal.
Crash(k) ==
    /\ Alive(k)
    /\ k \notin signalled
    /\ Cardinality({j \in W : wstatus[j] = "crashed"}) < MaxCrashes
    /\ Ends(k, "crashed")
    /\ UNCHANGED <<envvars, parvars, ctable, current, handler, wn, wtgt>>

\* --------------------------------------------------------- the specification
Parent ==
    \/ Setup \/ RmOpen \/ RmUnlinkSrc \/ RmUnlinkDst \/ RmRmdir \/ Mkdir
    \/ DoTest \/ SpawnFork \/ SpawnForkFail \/ Sleep \/ StopKill \/ StopWait \/ Pass
    \/ Cleanup \/ Free

Worker(k) ==
    \/ WorkerOpen(k) \/ WorkerSigaction(k) \/ WorkerCheck(k) \/ WorkerOpenat(k)
    \/ WorkerRename(k) \/ WorkerUnlink(k) \/ WorkerClose(k) \/ WorkerClosedir(k)
    \/ WorkerExit(k)

Next == Parent \/ \E k \in W : Worker(k) \/ Deliver(k) \/ Crash(k)

Spec == Init /\ [][Next]_vars

\* Every process that can take a step eventually takes one, and a queued
\* signal is eventually delivered.
Fairness ==
    /\ WF_vars(Parent)
    /\ \A k \in W : WF_vars(Worker(k)) /\ WF_vars(Deliver(k))

FairSpec == Spec /\ Fairness

\* ------------------------------------------------------------------ claims
\* Messages of the tst_brk calls of setup.
SetupMsgs == {"Invalid workers count", "Invalid timeout", "Invalid priority",
              "Could not allocate workers array",
              "Failed to remove existing base directory",
              "Failed to create base directory"}

AllWorkers == 1..workers_len

\* The parent is in rm_base_dir.
InRm == pc \in {"rm_open", "rm_unlink_src", "rm_unlink_dst", "rm_rmdir"}
\* The parent is in setup / has entered cleanup.
InSetup == pc \in {"setup", "mkdir"} \/ (InRm /\ rm.caller = "setup")
InCleanup == pc \in {"cleanup", "free", "done"} \/ (InRm /\ rm.caller = "cleanup")
\* spawn_workers has returned.
Spawned == pc \in {"sleep", "kill", "wait", "pass"} \/ (InCleanup /\ aborted = "")

\* C1: in a run where every fork succeeds, once spawn_workers has returned
\* exactly workers_len processes exist (one per entry, with distinct pids), and
\* cleanup is entered only after exactly those workers_len processes have been
\* waited for and have ended.
C1_SpawnedAndReapedBeforeCleanup ==
    /\ Spawned =>
         /\ forked = AllWorkers
         /\ {k \in W : wpc[k] # "none"} = AllWorkers
         /\ Cardinality({workers[k].pid : k \in AllWorkers}) = workers_len
    /\ (InCleanup /\ aborted = "") =>
         /\ reaped = forked
         /\ \A k \in AllWorkers : wpc[k] = "reaped"

C1_Witness ==
    /\ pc = "cleanup" /\ aborted = ""
    /\ workers_len = MaxWorkers
    /\ reaped = 1..MaxWorkers

\* C2: after a complete run (no abort, cleanup finished) the base directory
\* does not exist and no slot name, resting or moved, exists under it.
C2_NothingLeftAfterRun ==
    (pc = "done" /\ aborted = "") => (base = "none" /\ entries \cap SlotNames = {})

C2_Witness ==
    /\ pc = "done" /\ aborted = ""
    /\ workers_len = MaxWorkers
    /\ \E k \in AllWorkers : wstatus[k] = "exit0"

\* C3: under fair scheduling every worker the stop signal was sent to
\* eventually ends, and stop_workers, once entered, eventually returns with
\* every worker reaped.
C3_SignalledWorkersEnd ==
    /\ \A k \in W : (k \in signalled) ~> ~Alive(k)
    /\ (pc = "kill") ~> (pc = "pass" /\ reaped = AllWorkers)

C3_Witness ==
    /\ pc = "pass"
    /\ workers_len = MaxWorkers
    /\ \A k \in AllWorkers : k \in signalled /\ wstatus[k] = "exit0"

\* C4: whenever the parent is waiting for, or has waited for, a worker, the
\* stop signal has been sent to every one of the workers_len workers.
C4_AllSignalledBeforeAnyWait ==
    (pc = "wait" \/ reaped # {}) => signalled = AllWorkers

C4_Witness ==
    /\ pc = "wait" /\ idx = 1
    /\ workers_len = MaxWorkers
    /\ signalled = 1..MaxWorkers
    /\ \E k \in AllWorkers : Alive(k)

\* C5: no worker is ever terminated by a signal.
C5_NoWorkerKilledBySignal ==
    \A k \in W : wstatus[k] # "sigusr1"

\* C6: at the end of every run that created the base directory, passed or
\* aborted, the directory and every slot name under it are gone.
C6_RemovedAfterEveryRun ==
    (pc = "done" /\ made_dir) => (base = "none" /\ entries = {})

\* The command line or the environment makes setup fail.
BadConfig ==
    \/ opt.w < 1
    \/ opt.t < 1
    \/ opt.p < PRIO_MIN \/ opt.p > PRIO_MAX
    \/ ~mem_ok
    \/ base = "file"
    \/ Foreign \in entries

\* C7: with an invalid worker count, duration or priority, a failing
\* allocation, a stale directory that cannot be removed or a base path that
\* cannot be created, the run never reaches do_test, no worker process ever
\* exists, and the run ends aborted by setup.
C7_SetupFailureForksNothing ==
    BadConfig =>
        /\ forked = {}
        /\ \A k \in W : wpc[k] = "none"
        /\ InSetup \/ InCleanup
        /\ InCleanup => aborted \in SetupMsgs

C7_Witness ==
    /\ pc = "done"
    /\ opt.w >= 1 /\ opt.t >= 1 /\ mem_ok /\ base = "none"
    /\ opt.p = PRIO_MAX + 1
    /\ aborted = "Invalid priority"

\* C8: with a valid configuration and the table allocated, a base path that is
\* absent or a stale directory holding only slot names never makes setup
\* abort, and setup ends with the base directory existing and empty.
C8_StaleDirectoryRecovered ==
    /\ (~BadConfig) => aborted \notin SetupMsgs
    /\ pc = "do_test" => (base = "dir" /\ entries = {} /\ made_dir)

\* setup has gone through a stale directory (whose handle it still holds).
C8_Witness ==
    /\ pc = "do_test"
    /\ pfds = 1
    /\ base = "dir" /\ entries = {}

\* C9: the pass record is emitted at most once, only in a run without abort
\* and only after every worker has been signalled and reaped; an aborted run
\* has no pass record; and under fair scheduling a run whose forks all
\* succeeded ends with exactly one pass record.
C9_PassRecord ==
    /\ [](/\ Len(results) <= 1
          /\ results # <<>> =>
               /\ aborted = ""
               /\ signalled = AllWorkers
               /\ reaped = AllWorkers
          /\ aborted # "" => results = <<>>)
    /\ (pc = "sleep") ~> (pc = "done" /\ results = <<"TPASS">>)

C9_Witness ==
    /\ pc = "done"
    /\ results = <<"TPASS">>
    /\ workers_len = MaxWorkers

\* C10: every step a worker takes in an iteration does what the loop body says.  An openat
\* step picks a slot of the table; when it fails nothing changes and the
\* worker is back at the flag check, when it succeeds the resting name exists
\* and renameat comes next.  A renameat step is followed by exactly one
\* unlinkat, of the resting name when renameat failed (nothing moved) and of
\* the moved name when it succeeded.  An unlinkat step removes at most its
\* target, changes nothing when the target is absent, and goes on to close.
C10_IterationStep ==
    \A k \in W :
        /\ (wpc[k] = "openat" /\ wpc'[k] \notin {"openat", "dead"}) =>
             \/ /\ wpc'[k] = "check"
                /\ ~DirLive
                /\ ~wfd'[k]
                /\ entries' = entries
             \/ /\ wpc'[k] = "rename"
                /\ wfd'[k]
                /\ wn'[k] \in 1..FilesLen
                /\ entries' = entries \cup {SrcName(wn'[k])}
        /\ (wpc[k] = "rename" /\ wpc'[k] \notin {"rename", "dead"}) =>
             /\ wpc'[k] = "unlink"
             /\ wn'[k] = wn[k]
             /\ IF SrcName(wn[k]) \in entries
                THEN /\ entries' = (entries \ {SrcName(wn[k])}) \cup {DstName(wn[k])}
                     /\ wtgt'[k] = DstName(wn[k])
                ELSE /\ entries' = entries
                     /\ wtgt'[k] = SrcName(wn[k])
        /\ (wpc[k] = "unlink" /\ wpc'[k] \notin {"unlink", "dead"}) =>
             /\ wpc'[k] = "close"
             /\ entries' = entries \ {wtgt[k]}
             /\ wtgt[k] \notin entries => entries' = entries

C10_Iteration == [][C10_IterationStep]_vars

\* A worker whose renameat failed because another worker moved the name, about
\* to unlink a resting name that is not there.
C10_Witness ==
    \E k \in W :
        /\ wpc[k] = "unlink"
        /\ wtgt[k] = SrcName(wn[k])
        /\ wtgt[k] \notin entries
        /\ base = "dir"

\* C11: at the flag check (and until the openat that follows it) a worker
\* holds no slot-file descriptor, and once worker_run has returned it holds
\* neither a slot-file descriptor nor the directory handle it opened.
C11_DescriptorDiscipline ==
    \A k \in W :
        /\ wpc[k] \in {"check", "openat"} => ~wfd[k]
        /\ wpc[k] = "exit" => (~wfd[k] /\ ~wdirfd[k])

\* One worker has returned from worker_run while another is at the flag check.
C11_Witness ==
    \E k, j \in W :
        /\ wpc[k] = "exit" /\ ~wdirfd[k]
        /\ wpc[j] = "check" /\ ~wfd[j]
        /\ base = "dir"

\* C12: the flag of a worker changes only when its handler runs, and the
\* handler changes nothing else; the handler sets it; once set it stays set;
\* an openat is only ever started from a flag check that read 0 (also after
\* a failed openat, which leads back to the check); and a check that reads
\* the flag set leaves the loop.  Hence at most one openat starts after the
\* flag is set.
C12_FlagStep ==
    \A k \in W :
        /\ (k \in forked /\ Finished(k)' # Finished(k)) =>
             /\ pending[k] /\ handler[k] /\ ~pending'[k]
             /\ Finished(k) = 0
             /\ wpc' = wpc /\ entries' = entries /\ base' = base
             /\ wfd' = wfd /\ wdirfd' = wdirfd /\ workers' = workers
             /\ \A j \in W \ {k} : ctable'[j] = ctable[j]
        /\ (k \in forked /\ pending[k] /\ ~pending'[k] /\ handler[k] /\ Alive(k)') =>
             Finished(k)' # 0
        /\ (k \in forked /\ Finished(k) # 0) => Finished(k)' # 0
        /\ (wpc'[k] = "openat" /\ wpc[k] # "openat") =>
             (wpc[k] = "check" /\ Finished(k) = 0)
        /\ (wpc[k] = "openat" /\ wpc'[k] \notin {"openat", "dead", "rename"}) =>
             wpc'[k] = "check"
        /\ (wpc[k] = "check" /\ Finished(k) # 0 /\ wpc'[k] # "check") =>
             wpc'[k] \in {"closedir", "dead"}

C12_FlagDiscipline == [][C12_FlagStep]_vars

\* The flag was set between the check and the openat: the one further openat.
C12_Witness ==
    \E k \in W : wpc[k] = "openat" /\ Finished(k) # 0

\* C13: once spawn_workers has returned, and until the table is freed, every
\* entry of the parent's table keeps the id and pid it was given and a
\* finished flag of 0, whatever the workers' handlers have stored.
C13_ParentTableUntouched ==
    (Spawned /\ ~freed) =>
        \A k \in AllWorkers :
            workers[k] = [id |-> k - 1, pid |-> PidOf(k), finished |-> 0]

C13_Witness ==
    /\ Spawned /\ ~freed
    /\ \E k \in AllWorkers : Alive(k) /\ Finished(k) # 0 /\ workers[k].finished = 0

\* C14: after spawn_workers the entries carry the distinct ids 0..W-1 and
\* distinct pids, and every child has current on its own entry, which carries
\* its id and the pid the parent recorded for it.
C14_UniqueIdentities ==
    /\ Spawned =>
         /\ {workers[k].id : k \in AllWorkers} = 0..(workers_len - 1)
         /\ \A j, k \in AllWorkers :
              j # k => (workers[j].id # workers[k].id /\ workers[j].pid # workers[k].pid)
    /\ \A k \in forked :
         /\ current[k] = k
         /\ ctable[k][current[k]].id = k - 1
         /\ ctable[k][current[k]].pid = workers[k].pid
         /\ workers[k].id = k - 1

C14_Witness ==
    /\ Spawned
    /\ workers_len = MaxWorkers
    /\ \A k \in AllWorkers : Alive(k)

\* C15: SAFE_KILL on a worker that has already ended is no error; a worker
\* that had ended before it was signalled is signalled and reaped like the
\* others: waitpid on an ended worker can return, and stop_workers returns
\* only with every worker signalled and reaped.
C15_EarlyExitStillReaped ==
    /\ aborted # "kill failed"
    /\ early \subseteq signalled
    /\ (pc = "wait" /\ ~Alive(idx)) => ENABLED StopWait
    /\ (early # {} /\ (pc = "pass" \/ InCleanup)) =>
         (aborted = "" /\ signalled = AllWorkers /\ reaped = AllWorkers)

C15_Witness ==
    /\ pc = "pass"
    /\ workers_len = MaxWorkers
    /\ \E k, j \in AllWorkers :
         /\ k \in early /\ wstatus[k] = "crashed"
         /\ j \notin early /\ wstatus[j] = "exit0"

\* What the path in base_dir names ("" names nothing).
PathKind == IF base_dir = "" THEN "none" ELSE base

\* The step with which rm_base_dir returns.
RmReturns == InRm /\ ~InRm'

\* C16 (as amended): when rm_base_dir returns,
\*  - from a failed open, it returns 0 and has changed nothing;
\*  - called with no worker running on a directory that holds only slot names,
\*    it has removed the directory and returns 0;
\*  - a non-zero result means the directory is still there, not empty;
\*  - a 0 result means no directory is left at the path (a regular file at the
\*    path is left in place and also gives 0).
C16_RmStep ==
    RmReturns =>
        /\ pc = "rm_open" =>
             (rm'.ret = 0 /\ PathKind # "dir" /\ base' = base /\ entries' = entries
              /\ pfds' = pfds)
        /\ (rm.quiet /\ PathKind = "dir" /\ Foreign \notin entries) =>
             (rm'.ret = 0 /\ base' = "none" /\ entries' = {})
        /\ rm'.ret # 0 => (PathKind' = "dir" /\ entries' # {})
        /\ rm'.ret = 0 => PathKind' # "dir"

C16_RmBaseDir == [][C16_RmStep]_vars

\* C16 as stated: a 0 result implies that the base path no longer exists.
C16_ZeroStep ==
    RmReturns =>
        /\ pc = "rm_open" =>
             (rm'.ret = 0 /\ base' = base /\ entries' = entries)
        /\ (rm.quiet /\ PathKind = "dir" /\ Foreign \notin entries) =>
             (rm'.ret = 0 /\ base' = "none")
        /\ rm'.ret # 0 => PathKind' = "dir"
        /\ rm'.ret = 0 => PathKind' = "none"

C16_ZeroMeansPathGone == [][C16_ZeroStep]_vars

\* Both calls of a run found a directory and removed it, with no worker running.
C16_Witness ==
    /\ pc = "free"
    /\ rm.ret = 0 /\ rm.quiet
    /\ pfds = 2
    /\ base = "none"

\* C17: every directory handle rm_base_dir opened is closed by the time it
\* has returned, so the parent holds none at the end of the run and no worker
\* has inherited one.
C17_NoHandleLeaked ==
    /\ pc = "done" => pfds = 0
    /\ \A k \in W : winherit[k] = 0

\* No worker is inside an iteration.
Quiescent ==
    \A k \in W : wpc[k] \in {"none", "open", "sigaction", "check", "closedir", "exit",
                             "dead", "reaped"}

\* No worker has been ended from outside.
NoCrash == \A k \in W : wstatus[k] # "crashed"

\* C18: from the mkdir of setup on, whenever every worker is outside an
\* iteration (not started, before the loop, at the flag check, past the loop
\* or ended by itself or by the stop signal), the base directory holds no
\* name; in particular it is empty when stop_workers has returned.
C18_QuiescentEmpty ==
    (made_dir /\ Quiescent /\ NoCrash) => entries = {}

\* Both workers went through the loop and were reaped; cleanup has not begun.
C18_Witness ==
    /\ pc = "cleanup" /\ aborted = ""
    /\ workers_len = MaxWorkers
    /\ \A k \in AllWorkers : wstatus[k] = "exit0"
    /\ base = "dir" /\ entries = {}

\* C19: a process in which sa_handler_finished is installed is a child whose
\* current points to its own entry of its own table; the parent's current
\* stays NULL and the parent never has the handler installed.
C19_HandlerSafe ==
    /\ current[0] = 0
    /\ ~handler[0]
    /\ \A k \in W :
         handler[k] =>
            /\ current[k] = k
            /\ current[k] \in DOMAIN ctable[k]
            /\ ctable[k][current[k]].pid = PidOf(k)

\* The handler is about to run in a worker.
C19_Witness ==
    \E k \in W : handler[k] /\ pending[k] /\ Alive(k) /\ wpc[k] = "rename"

====
